---- MODULE Spec2Model ----
(***************************************************************************)
(* Model of the concurrent acquisition-and-extraction engine               *)
(* (data_extraction/webscraper.py, class AsyncWebScraper) and of the       *)
(* pipeline steps that drive it (data_extraction/webscrape_flow.py).       *)
(*                                                                         *)
(* Strings are sequences of lexical tokens: "Error:" is one token, every   *)
(* whitespace character is a token of its own (" " and the no-break space  *)
(* "nbsp"), and a URL is the sequence scheme, host, path segments.         *)
(* startswith is the prefix relation on these sequences.                   *)
(***************************************************************************)
EXTENDS Integers, Sequences, FiniteSets, TLC

VARIABLES
    target_urls,      \* self.target_urls
    collected_links,  \* self.collected_links: URL -> list of links
    locked,           \* self._lock is held
    gpc,              \* position of fetch_all_links / _gather_links
    lpc,              \* position of each _fetch_links task
    browser,          \* local `browser` of each _fetch_links task
    links,            \* local `links` of each _fetch_links task
    xpc,              \* position of extract_news
    wpc,              \* position of each extract_*_news task
    filtered_urls,    \* local `filtered_urls` of each extract_*_news task
    link_to_data,     \* return value of each extract_*_news task
    urls,             \* argument of scrape_and_get_html
    spc,              \* position of scrape_html
    fpc,              \* position of each _fetch_html task
    fret,             \* value returned by each _fetch_html task
    html_data,        \* local `html_data` of scrape_html
    result,           \* mapping returned by scrape_html
    net,              \* how the request of each _fetch_html task ended
    done_order,       \* the _fetch_html tasks in the order they finished
    sent,             \* number of session.get calls each _fetch_html task has made
    calls,            \* number of fetch_all_links calls made so far
    before            \* collected_links as the latest fetch_all_links call found it

engine == <<target_urls, collected_links, locked>>
discovery == <<gpc, lpc, browser, links>>
flow == <<xpc, wpc, filtered_urls, link_to_data>>
batch == <<urls, spc, fpc, fret, html_data, result, net, done_order, sent>>
history == <<calls, before>>
vars == <<target_urls, collected_links, locked, gpc, lpc, browser, links,
          xpc, wpc, filtered_urls, link_to_data,
          urls, spc, fpc, fret, html_data, result, net, done_order, sent, calls, before>>

(***************************************************************************)
(* Bounds                                                                  *)
(***************************************************************************)
MaxUrls == 2        \* longest list given to scrape_and_get_html
MaxTargets == 2     \* longest list of top-level sites
MaxCalls == 2       \* most calls of fetch_all_links on one engine

(***************************************************************************)
(* Strings                                                                 *)
(***************************************************************************)
\* None
NoValue == <<<<"None">>>>

IsSpace(c) == c \in {" ", "nbsp"}

\* str.startswith
StartsWith(s, p) == Len(s) >= Len(p) /\ SubSeq(s, 1, Len(p)) = p

RECURSIVE LStrip(_)
LStrip(s) == IF s /= <<>> /\ IsSpace(Head(s)) THEN LStrip(Tail(s)) ELSE s

RECURSIVE RStrip(_)
RStrip(s) ==
    IF s /= <<>> /\ IsSpace(s[Len(s)]) THEN RStrip(SubSeq(s, 1, Len(s) - 1)) ELSE s

\* a trim of the leading whitespace only
StripLeft(s) == LStrip(s)

\* str.strip(): leading and trailing whitespace, the no-break space included
Strip(s) == RStrip(LStrip(s))

\* str.replace(u'\xa0', u' ')
ReplaceNbsp(s) == [i \in 1..Len(s) |-> IF s[i] = "nbsp" THEN " " ELSE s[i]]

\* ' '.join(parts)
RECURSIVE Join(_)
Join(parts) ==
    IF parts = <<>> THEN <<>>
    ELSE IF Len(parts) = 1 THEN parts[1]
    ELSE parts[1] \o <<" ">> \o Join(Tail(parts))

RECURSIVE SelectNodes(_, _)
SelectNodes(doc, tags) ==
    IF doc = <<>> THEN <<>>
    ELSE IF Head(doc).tag \in tags
         THEN <<Head(doc)>> \o SelectNodes(Tail(doc), tags)
         ELSE SelectNodes(Tail(doc), tags)

RECURSIVE DropNodes(_, _)
DropNodes(doc, tags) ==
    IF doc = <<>> THEN <<>>
    ELSE IF Head(doc).tag \in tags
         THEN DropNodes(Tail(doc), tags)
         ELSE <<Head(doc)>> \o DropNodes(Tail(doc), tags)

(***************************************************************************)
(* Documents.  Raw content is a sequence of nodes [tag, text]; the tag     *)
(* "#text" is character data outside any element.                         *)
(***************************************************************************)
Node(t, s) == [tag |-> t, text |-> s]

\* a tree builder that opens no implied paragraph
ParseAsIs(html) == html

\* BeautifulSoup(html, 'lxml'): the lxml tree builder opens an implied
\* paragraph for character data that starts the document
Parse(html) ==
    IF html /= <<>> /\ Head(html).tag = "#text"
    THEN <<Node("p", Head(html).text)>> \o Tail(html)
    ELSE html

NoTitleFound == <<"No", " ", "Title", " ", "Found">>

NonContent == {"script", "style", "template"}

\* AsyncWebScraper._extract_text
ExtractText(html) ==
    LET soup == Parse(html)
        titles == SelectNodes(soup, {"title"})
        kept == DropNodes(soup, NonContent)
        ps == SelectNodes(kept, {"p"})
    IN  [text  |-> Join([i \in 1..Len(ps) |-> ReplaceNbsp(Strip(ps[i].text))]),
         title |-> IF titles /= <<>> THEN titles[1].text ELSE NoTitleFound]

(***************************************************************************)
(* Concurrent Fetch-and-Extract: scrape_and_get_html / scrape_html /       *)
(* _fetch_all_html / _fetch_html                                           *)
(***************************************************************************)
Url1 == <<"https", "://a.test", "/news">>
Url2 == <<"https", "://b.test", "/bad">>
ScrapeUrls == {Url1, Url2}

RECURSIVE SeqsUpTo(_, _)
SeqsUpTo(S, n) ==
    IF n = 0 THEN {<<>>}
    ELSE LET shorter == SeqsUpTo(S, n - 1)
         IN  shorter \cup {Append(q, x) : q \in {r \in shorter : Len(r) = n - 1}, x \in S}

UrlLists == SeqsUpTo(ScrapeUrls, MaxUrls)

\* documents a server may answer with
DocA == <<Node("title", <<"A">>), Node("script", <<"x">>),
          Node("p", <<" ", "Market", "nbsp", "up", " ">>), Node("p", <<"B">>)>>
DocB == <<Node("div", <<"no", " ", "paragraph">>)>>
DocC == <<Node("style", <<"s">>), Node("p", <<"nbsp", "Hello", "nbsp", "world", " ">>),
          Node("template", <<"t">>), Node("div", <<"d">>), Node("p", <<"C">>)>>
Docs == {DocA, DocB, DocC}

\* the exception classes of the except clause of _fetch_html
Caught == {"TimeoutError", "InvalidURL", "ServerDisconnectedError",
           "ClientConnectorError", "UnicodeDecodeError"}
\* what session.get / response.text may raise besides a timeout:
\* ClientPayloadError stands for the aiohttp errors outside the except clause
Raisable == (Caught \ {"TimeoutError"}) \cup {"ClientPayloadError"}

\* str(e)
StrOf(e, url) ==
    CASE e = "TimeoutError" -> <<>>
      [] e = "InvalidURL" -> url
      [] e = "ServerDisconnectedError" -> <<"Server", " ", "disconnected">>
      [] e = "ClientConnectorError" -> <<"Cannot", " ", "connect", " ", "to", " ", "host">>
      [] e = "UnicodeDecodeError" -> <<"codec", " ", "can't", " ", "decode", " ", "byte">>
      [] OTHER -> <<e>>

Ok(d) == [kind |-> "ok", doc |-> d]
Exc(e) == [kind |-> "exc", exc |-> e]
NotEnded == [kind |-> "none"]

\* an except clause that forgets the timeout
IsCaughtNoTimeout(e) == e \in Caught \ {"TimeoutError"}

\* except (TimeoutError, InvalidURL, ServerDisconnectedError, ClientConnectorError, UnicodeDecodeError)
IsCaught(e) == e \in Caught

Escapes(o) == o.kind = "exc" /\ ~IsCaught(o.exc)

\* return f"Error: {str(e)}", url
ErrorValue(e, url) ==
    [html |-> <<Node("#text", <<"Error:", " ">> \o StrOf(e, url))>>, url |-> url]

\* return await response.text(), url
TextValue(d, url) == [html |-> d, url |-> url]

\* the value _fetch_html returns when its request ends with outcome o
FetchValue(o, url) ==
    IF o.kind = "ok" THEN TextValue(o.doc, url) ELSE ErrorValue(o.exc, url)

LastIndex(data, u) ==
    CHOOSE j \in 1..Len(data) : data[j].url = u /\ \A k \in (j + 1)..Len(data) : data[k].url /= u

\* a comprehension that leaves the error values out
ScrapeDictSkipErrors(data) ==
    LET good == SelectSeq(data, LAMBDA r : r.html = <<>> \/ Head(r.html).tag /= "#text")
    IN  [u \in {good[j].url : j \in 1..Len(good)} |->
            ExtractText(good[LastIndex(good, u)].html)]

\* {url: self._extract_text(html) for html, url in html_data}
ScrapeDict(data) ==
    [u \in {data[j].url : j \in 1..Len(data)} |-> ExtractText(data[LastIndex(data, u)].html)]

Tasks == 1..Len(urls)

\* results taken in completion order and matched to the requests by position
GatherAsCompleted ==
    [j \in 1..Len(done_order) |-> [html |-> fret[done_order[j]].html, url |-> urls[j]]]

\* the results in the order in which the tasks completed
GatherCompletionOrder == [j \in 1..Len(done_order) |-> fret[done_order[j]]]

\* await asyncio.gather(*tasks): the results in the order of the tasks
Gather == [i \in Tasks |-> fret[i]]

InitBatch ==
    /\ urls = <<>>
    /\ spc = "idle"
    /\ fpc = <<>>
    /\ fret = <<>>
    /\ net = <<>>
    /\ html_data = <<>>
    /\ result = <<>>
    /\ done_order = <<>>
    /\ sent = <<>>

\* scrape_and_get_html(us): the session is opened and one task per URL created
ScrapeAndGetHtml(us) ==
    /\ spc = "idle"
    /\ urls' = us
    /\ spc' = "gathering"
    /\ fpc' = [i \in 1..Len(us) |-> "pending"]
    /\ fret' = [i \in 1..Len(us) |-> NoValue]
    /\ net' = [i \in 1..Len(us) |-> NotEnded]
    /\ sent' = [i \in 1..Len(us) |-> 0]
    /\ UNCHANGED <<html_data, result, done_order>>

\* a task starts: session.get(url) is issued under its own timeout
Send(i) ==
    /\ spc = "gathering"
    /\ fpc[i] = "pending"
    /\ fpc' = [fpc EXCEPT ![i] = "inflight"]
    /\ sent' = [sent EXCEPT ![i] = @ + 1]
    /\ UNCHANGED <<urls, spc, fret, net, html_data, result, done_order>>

\* the request of task i ends with outcome o
Finish(i, o) ==
    /\ fpc[i] = "inflight"
    /\ net' = [net EXCEPT ![i] = o]
    /\ IF Escapes(o)
       THEN /\ fpc' = [fpc EXCEPT ![i] = "raised"]
            /\ UNCHANGED fret
       ELSE /\ fpc' = [fpc EXCEPT ![i] = "done"]
            /\ fret' = [fret EXCEPT ![i] = FetchValue(o, urls[i])]
    /\ done_order' = Append(done_order, i)
    /\ UNCHANGED <<urls, spc, html_data, result, sent>>

\* the body of the response arrives before the timeout
Respond(i) ==
    /\ spc = "gathering"
    /\ \E d \in Docs : Finish(i, Ok(d))

\* session.get or response.text raises
Fail(i) ==
    /\ spc = "gathering"
    /\ \E e \in Raisable : Finish(i, Exc(e))

\* one timeout around the whole batch: its expiry ends every request in flight
TimeoutShared(i) ==
    /\ spc = "gathering"
    /\ fpc[i] = "inflight"
    /\ net' = [j \in Tasks |-> IF fpc[j] = "inflight" THEN Exc("TimeoutError") ELSE net[j]]
    /\ fret' = [j \in Tasks |->
                  IF fpc[j] = "inflight" THEN ErrorValue("TimeoutError", urls[j]) ELSE fret[j]]
    /\ fpc' = [j \in Tasks |-> IF fpc[j] = "inflight" THEN "done" ELSE fpc[j]]
    /\ done_order' = done_order \o
          SelectSeq([j \in Tasks |-> j], LAMBDA j : fpc[j] = "inflight")
    /\ UNCHANGED <<urls, spc, html_data, result, sent>>

\* a timed-out request is issued again
TimeoutRetries(i) ==
    /\ spc = "gathering"
    /\ fpc[i] = "inflight"
    /\ fpc' = [fpc EXCEPT ![i] = "pending"]
    /\ UNCHANGED <<urls, spc, fret, net, html_data, result, done_order, sent>>

\* async_timeout.timeout(10) expires
Timeout(i) ==
    /\ spc = "gathering"
    /\ Finish(i, Exc("TimeoutError"))

AllDone == \A i \in Tasks : fpc[i] = "done"

\* every task is done: gather returns, the documents are extracted
ScrapeReturn ==
    /\ spc = "gathering"
    /\ AllDone
    /\ html_data' = Gather
    /\ result' = ScrapeDict(html_data')
    /\ spc' = "returned"
    /\ UNCHANGED <<urls, fpc, fret, net, done_order, sent>>

\* an exception left a task: gather raises it into scrape_html (which resumes
\* after every task has had its first step), and asyncio.run cancels the
\* tasks still running
ScrapeRaise ==
    /\ spc = "gathering"
    /\ \E i \in Tasks : fpc[i] = "raised"
    /\ \A i \in Tasks : fpc[i] /= "pending"
    /\ spc' = "raised"
    /\ fpc' = [i \in Tasks |-> IF fpc[i] = "inflight" THEN "cancelled" ELSE fpc[i]]
    /\ UNCHANGED <<urls, fret, net, html_data, result, done_order, sent>>

NextScrape ==
    \/ \E us \in UrlLists : ScrapeAndGetHtml(us) /\ UNCHANGED <<engine, discovery, flow, history>>
    \/ \E i \in Tasks : Send(i) /\ UNCHANGED <<engine, discovery, flow, history>>
    \/ \E i \in Tasks : Respond(i) /\ UNCHANGED <<engine, discovery, flow, history>>
    \/ \E i \in Tasks : Fail(i) /\ UNCHANGED <<engine, discovery, flow, history>>
    \/ \E i \in Tasks : Timeout(i) /\ UNCHANGED <<engine, discovery, flow, history>>
    \/ ScrapeReturn /\ UNCHANGED <<engine, discovery, flow, history>>
    \/ ScrapeRaise /\ UNCHANGED <<engine, discovery, flow, history>>

(***************************************************************************)
(* Link Discovery: fetch_all_links / _gather_links / _fetch_links          *)
(*                                                                         *)
(* Every statement of _fetch_links is a step of its own and the steps of   *)
(* different tasks interleave freely.  The event loop switches tasks only  *)
(* where a task waits (here: for the lock), so it runs a subset of these   *)
(* interleavings; a worker-thread pool runs all of them.                   *)
(***************************************************************************)
Yahoo == <<"https", "://finance.yahoo.com", "/news/">>
MarketWatch == <<"https", "://www.marketwatch.com", "/latest-news">>
Sites == {Yahoo, MarketWatch}
TargetLists == SeqsUpTo(Sites, MaxTargets)

\* hyperlink targets a rendered page may hold
LRel == <<"/news/a1">>
LYahoo == <<"https", "://finance.yahoo.com", "/news/a2">>
LBlocked == <<"/">>
LStory == <<"https", "://www.marketwatch.com", "/story", "/a3">>
LOther == <<"https", "://www.marketwatch.com", "/investing">>
Pages == {<<>>, <<LRel, LStory>>, <<LYahoo, LBlocked, LOther>>}

\* dict[k] = v
Put(f, k, v) == [x \in (DOMAIN f) \cup {k} |-> IF x = k THEN v ELSE f[x]]

DTasks == 1..Len(target_urls)

InitEngine ==
    /\ target_urls \in TargetLists
    /\ collected_links = <<>>
    /\ locked = FALSE

InitDiscovery ==
    /\ gpc = "idle"
    /\ lpc = [i \in DTasks |-> "idle"]
    /\ browser = [i \in DTasks |-> "none"]
    /\ links = [i \in DTasks |-> NoValue]
    /\ calls = 0
    /\ before = <<>>

\* fetch_all_links(): one new _fetch_links task per target URL, each with
\* its own locals
FetchAllLinks ==
    /\ gpc \in {"idle", "returned"}
    /\ xpc = "idle"
    /\ calls < MaxCalls
    /\ gpc' = "running"
    /\ lpc' = [i \in DTasks |-> "new"]
    /\ browser' = [i \in DTasks |-> "none"]
    /\ links' = [i \in DTasks |-> NoValue]
    /\ calls' = calls + 1
    /\ before' = collected_links
    /\ UNCHANGED engine

\* browser = webdriver.Chrome(...)
OpenBrowser(i) ==
    /\ lpc[i] = "new"
    /\ browser' = [browser EXCEPT ![i] = "open"]
    /\ lpc' = [lpc EXCEPT ![i] = "get"]
    /\ UNCHANGED <<gpc, links, engine>>

\* webdriver.Chrome(...) raises: browser is still None
OpenBrowserFails(i) ==
    /\ lpc[i] = "new"
    /\ lpc' = [lpc EXCEPT ![i] = "except"]
    /\ UNCHANGED <<gpc, browser, links, engine>>

\* browser.get(url), the page is parsed and its links listed
Render(i) ==
    /\ lpc[i] = "get"
    /\ \E page \in Pages : links' = [links EXCEPT ![i] = page]
    /\ lpc' = [lpc EXCEPT ![i] = "lock"]
    /\ UNCHANGED <<gpc, browser, engine>>

\* the exception leaves the task and gather raises it into fetch_all_links
RenderFailsEscapes(i) ==
    /\ lpc[i] = "get"
    /\ lpc' = [j \in DTasks |-> IF j = i \/ lpc[j] = "done" THEN "done" ELSE "cancelled"]
    /\ gpc' = "raised"
    /\ UNCHANGED <<browser, links, engine>>

\* browser.get(url) or the parsing raises
RenderFails(i) ==
    /\ lpc[i] = "get"
    /\ lpc' = [lpc EXCEPT ![i] = "except"]
    /\ UNCHANGED <<gpc, browser, links, engine>>

\* entering the block without waiting for the lock
AcquireNoWait(i) ==
    /\ lpc[i] = "lock"
    /\ locked' = TRUE
    /\ lpc' = [lpc EXCEPT ![i] = "cs"]
    /\ UNCHANGED <<gpc, browser, links, target_urls, collected_links>>

\* async with self._lock: (enter)
Acquire(i) ==
    /\ lpc[i] = "lock"
    /\ ~locked
    /\ locked' = TRUE
    /\ lpc' = [lpc EXCEPT ![i] = "cs"]
    /\ UNCHANGED <<gpc, browser, links, target_urls, collected_links>>

\* the links stored under the first link found instead of the page's URL
WriteUnderLink(i) ==
    /\ lpc[i] = "cs"
    /\ collected_links' =
          Put(collected_links, IF links[i] /= <<>> THEN links[i][1] ELSE target_urls[i], links[i])
    /\ lpc' = [lpc EXCEPT ![i] = "unlock"]
    /\ UNCHANGED <<gpc, browser, links, target_urls, locked>>

\* the links appended to the entry the URL already has
WriteAppend(i) ==
    /\ lpc[i] = "cs"
    /\ collected_links' =
          Put(collected_links, target_urls[i],
              IF target_urls[i] \in DOMAIN collected_links
              THEN collected_links[target_urls[i]] \o links[i] ELSE links[i])
    /\ lpc' = [lpc EXCEPT ![i] = "unlock"]
    /\ UNCHANGED <<gpc, browser, links, target_urls, locked>>

\* self.collected_links[url] = links
Write(i) ==
    /\ lpc[i] = "cs"
    /\ collected_links' = Put(collected_links, target_urls[i], links[i])
    /\ lpc' = [lpc EXCEPT ![i] = "unlock"]
    /\ UNCHANGED <<gpc, browser, links, target_urls, locked>>

\* async with self._lock: (exit)
Release(i) ==
    /\ lpc[i] = "unlock"
    /\ locked' = FALSE
    /\ lpc' = [lpc EXCEPT ![i] = "finally"]
    /\ UNCHANGED <<gpc, browser, links, target_urls, collected_links>>

\* a handler that leaves the task without running the cleanup
ExceptNoCleanup(i) ==
    /\ lpc[i] = "except"
    /\ lpc' = [lpc EXCEPT ![i] = "done"]
    /\ UNCHANGED <<gpc, browser, links, engine>>

\* except Exception as err: print(...)
Except(i) ==
    /\ lpc[i] = "except"
    /\ lpc' = [lpc EXCEPT ![i] = "finally"]
    /\ UNCHANGED <<gpc, browser, links, engine>>

\* finally: if browser: browser.quit()
Finally(i) ==
    /\ lpc[i] = "finally"
    /\ browser' = [browser EXCEPT ![i] = IF @ = "open" THEN "quit" ELSE @]
    /\ lpc' = [lpc EXCEPT ![i] = "done"]
    /\ UNCHANGED <<gpc, links, engine>>

\* a gather that returns with the first finished task
LinksAnyDone == DTasks = {} \/ \E i \in DTasks : lpc[i] = "done"

LinksAllDone == \A i \in DTasks : lpc[i] = "done"

\* await asyncio.gather(*tasks) returns, and with it fetch_all_links
GatherLinksReturn ==
    /\ gpc = "running"
    /\ LinksAllDone
    /\ gpc' = "returned"
    /\ UNCHANGED <<lpc, browser, links, engine>>

(***************************************************************************)
(* Pipeline steps: extract_news, extract_yahoo_finance_news,               *)
(* extract_marketwatch_news, extract_news_text and the URL filters         *)
(***************************************************************************)
\* config.yahoo_fin_block_set
yahoo_fin_block_set == {LBlocked}

YahooDomain == <<"https", "://finance.yahoo.com">>
StoryPrefix == <<"https", "://www.marketwatch.com", "/story">>

url_filter(url, block_set) == url \notin block_set

yahoo_url_filter(us) ==
    LET kept == SelectSeq(us, LAMBDA u : url_filter(u, yahoo_fin_block_set))
    IN  [i \in 1..Len(kept) |->
            IF ~StartsWith(kept[i], <<"https">>) THEN YahooDomain \o kept[i] ELSE kept[i]]

marketwatch_url_filter(us) == SelectSeq(us, LAMBDA u : StartsWith(u, StoryPrefix))

\* how the requests of a pipeline batch may end
FlowOutcomes == {Ok(DocA), Exc("TimeoutError"), Exc("ClientPayloadError")}

\* task 1 is extract_yahoo_finance_news(scraper, websites[0]),
\* task 2 is extract_marketwatch_news(scraper, websites[1])
FlowTasks == {1, 2}
Filter(k, us) == IF k = 1 THEN yahoo_url_filter(us) ELSE marketwatch_url_filter(us)

InitFlow ==
    /\ xpc = "idle"
    /\ wpc = [k \in FlowTasks |-> "idle"]
    /\ filtered_urls = [k \in FlowTasks |-> NoValue]
    /\ link_to_data = [k \in FlowTasks |-> NoValue]

\* extract_news(scraper, websites): the tasks are submitted; websites[k]
\* raises IndexError when the list is shorter
ExtractNews ==
    /\ gpc = "returned"
    /\ xpc = "idle"
    /\ wpc' = [k \in FlowTasks |-> IF k <= Len(target_urls) THEN "submitted" ELSE "idle"]
    /\ xpc' = IF Len(target_urls) >= 2 THEN "running" ELSE "raised"
    /\ UNCHANGED <<filtered_urls, link_to_data, engine>>

\* filtered_urls = <site>_url_filter(scraper.collected_links[website])
FilterLinks(k) ==
    /\ wpc[k] = "submitted"
    /\ IF target_urls[k] \in DOMAIN collected_links
       THEN /\ filtered_urls' = [filtered_urls EXCEPT ![k] = Filter(k, collected_links[target_urls[k]])]
            /\ wpc' = [wpc EXCEPT ![k] = "filtered"]
       ELSE /\ wpc' = [wpc EXCEPT ![k] = "raised"]     \* KeyError
            /\ UNCHANGED filtered_urls
    /\ UNCHANGED <<xpc, link_to_data, engine>>

\* both steps replace the entry of the first site
UpdateLinksFirstKey(k) ==
    /\ wpc[k] = "filtered"
    /\ collected_links' = Put(collected_links, target_urls[1], filtered_urls[k])
    /\ wpc' = [wpc EXCEPT ![k] = "updated"]
    /\ UNCHANGED <<xpc, filtered_urls, link_to_data, target_urls, locked>>

\* scraper.collected_links[website] = filtered_urls
UpdateLinks(k) ==
    /\ wpc[k] = "filtered"
    /\ collected_links' = Put(collected_links, target_urls[k], filtered_urls[k])
    /\ wpc' = [wpc EXCEPT ![k] = "updated"]
    /\ UNCHANGED <<xpc, filtered_urls, link_to_data, target_urls, locked>>

\* extract_news_text: scraper.scrape_and_get_html(scraper.collected_links[website]),
\* the whole batch in one step, the request of each URL ending as in outs
ExtractNewsText(k) ==
    /\ wpc[k] = "updated"
    /\ LET us == collected_links[target_urls[k]]
       IN  \E outs \in [1..Len(us) -> FlowOutcomes] :
              IF \E i \in 1..Len(us) : Escapes(outs[i])
              THEN /\ wpc' = [wpc EXCEPT ![k] = "raised"]
                   /\ UNCHANGED link_to_data
              ELSE /\ wpc' = [wpc EXCEPT ![k] = "done"]
                   /\ link_to_data' = [link_to_data EXCEPT ![k] =
                          ScrapeDict([i \in 1..Len(us) |-> FetchValue(outs[i], us[i])])]
    /\ UNCHANGED <<xpc, filtered_urls, engine>>

\* future_yahoo.result(), future_marketwatch.result()
ExtractNewsReturn ==
    /\ xpc = "running"
    /\ \A k \in FlowTasks : wpc[k] \in {"done", "raised"}
    /\ xpc' = IF \E k \in FlowTasks : wpc[k] = "raised" THEN "raised" ELSE "returned"
    /\ UNCHANGED <<wpc, filtered_urls, link_to_data, engine>>

(***************************************************************************)
(* Specifications                                                          *)
(***************************************************************************)
Init == InitEngine /\ InitDiscovery /\ InitFlow /\ InitBatch

\* the pipeline: discovery, then the two extraction tasks
Next ==
    \/ FetchAllLinks /\ calls = 0 /\ UNCHANGED <<flow, batch>>
    \/ \E i \in DTasks : OpenBrowser(i) /\ UNCHANGED <<flow, batch, history>>
    \/ \E i \in DTasks : OpenBrowserFails(i) /\ UNCHANGED <<flow, batch, history>>
    \/ \E i \in DTasks : Render(i) /\ UNCHANGED <<flow, batch, history>>
    \/ \E i \in DTasks : RenderFails(i) /\ UNCHANGED <<flow, batch, history>>
    \/ \E i \in DTasks : Acquire(i) /\ UNCHANGED <<flow, batch, history>>
    \/ \E i \in DTasks : Write(i) /\ UNCHANGED <<flow, batch, history>>
    \/ \E i \in DTasks : Release(i) /\ UNCHANGED <<flow, batch, history>>
    \/ \E i \in DTasks : Except(i) /\ UNCHANGED <<flow, batch, history>>
    \/ \E i \in DTasks : Finally(i) /\ UNCHANGED <<flow, batch, history>>
    \/ GatherLinksReturn /\ UNCHANGED <<flow, batch, history>>
    \/ ExtractNews /\ UNCHANGED <<discovery, batch, history>>
    \/ \E k \in FlowTasks : FilterLinks(k) /\ UNCHANGED <<discovery, batch, history>>
    \/ \E k \in FlowTasks : UpdateLinks(k) /\ UNCHANGED <<discovery, batch, history>>
    \/ \E k \in FlowTasks : ExtractNewsText(k) /\ UNCHANGED <<discovery, batch, history>>
    \/ ExtractNewsReturn /\ UNCHANGED <<discovery, batch, history>>

Spec == Init /\ [][Next]_vars

\* fetch_all_links called repeatedly on one engine
NextRediscover ==
    \/ FetchAllLinks /\ UNCHANGED <<flow, batch>>
    \/ \E i \in DTasks : OpenBrowser(i) /\ UNCHANGED <<flow, batch, history>>
    \/ \E i \in DTasks : OpenBrowserFails(i) /\ UNCHANGED <<flow, batch, history>>
    \/ \E i \in DTasks : Render(i) /\ UNCHANGED <<flow, batch, history>>
    \/ \E i \in DTasks : RenderFails(i) /\ UNCHANGED <<flow, batch, history>>
    \/ \E i \in DTasks : Acquire(i) /\ UNCHANGED <<flow, batch, history>>
    \/ \E i \in DTasks : Write(i) /\ UNCHANGED <<flow, batch, history>>
    \/ \E i \in DTasks : Release(i) /\ UNCHANGED <<flow, batch, history>>
    \/ \E i \in DTasks : Except(i) /\ UNCHANGED <<flow, batch, history>>
    \/ \E i \in DTasks : Finally(i) /\ UNCHANGED <<flow, batch, history>>
    \/ GatherLinksReturn /\ UNCHANGED <<flow, batch, history>>

SpecRediscover == Init /\ [][NextRediscover]_vars

\* one call of scrape_and_get_html on a constructed engine
InitScrape == Init /\ target_urls = <<Yahoo, MarketWatch>>

SpecScrape == InitScrape /\ [][NextScrape]_vars

\* the same call under a fair event loop: a step that stays possible (a task
\* starting, a request ending or timing out, gather resuming) is taken
FairSpecScrape == SpecScrape /\ WF_vars(NextScrape)

(***************************************************************************)
(* Properties of Concurrent Fetch-and-Extract (checked under SpecScrape)   *)
(***************************************************************************)
\* task i is the last request of the batch for its URL
IsLast(i) == \A k \in Tasks : k > i => urls[k] /= urls[i]

Failed(i) == net[i].kind = "exc"
Succeeded(i) == net[i].kind = "ok"

\* C1: when scrape_and_get_html returns, the keys of the returned mapping are
\* exactly the distinct URLs of the input list (none missing, none extra; the
\* empty list gives the empty mapping), whatever way each request ended.
C1_KeysAreRequestedUrls ==
    spc = "returned" => DOMAIN result = {urls[i] : i \in Tasks}

C1_Witness ==
    /\ spc = "returned"
    /\ Len(urls) = 2 /\ urls[1] = urls[2]
    /\ Failed(1) /\ Succeeded(2)

C1_WitnessEmpty == spc = "returned" /\ urls = <<>> /\ DOMAIN result = {}

\* C2: a request that ends in a timeout, an invalid URL, a server disconnect
\* (connection reset), a connection failure or a decoding failure makes its
\* task return ("Error: <description>", url); the exception leaves neither the
\* task nor the batch.
C2_RecognisedFailures ==
    {"TimeoutError", "InvalidURL", "ServerDisconnectedError",
     "ClientConnectorError", "UnicodeDecodeError"}

C3_OneBadUrlCannotAbort ==
    \A i, j \in Tasks :
        ( /\ spc \in {"returned", "raised"}
          /\ Failed(i)
          /\ Succeeded(j) /\ urls[j] /= urls[i] /\ IsLast(j) ) =>
            /\ urls[j] \in DOMAIN result
            /\ result[urls[j]] = ExtractText(net[j].doc)

\* C4: a request that times out gives an entry whose text begins with
\* "Error:" and whose title is "No Title Found".
C4_TimeoutEntry ==
    \A i \in Tasks :
        (spc = "returned" /\ Failed(i) /\ net[i].exc = "TimeoutError" /\ IsLast(i)) =>
            /\ urls[i] \in DOMAIN result
            /\ StartsWith(result[urls[i]].text, <<"Error:">>)
            /\ result[urls[i]].title = <<"No", " ", "Title", " ", "Found">>

C4_Witness ==
    /\ spc = "returned"
    /\ Len(urls) = 2 /\ urls[1] /= urls[2]
    /\ Failed(2) /\ net[2].exc = "TimeoutError"
    /\ Succeeded(1)

\* C5: in whatever order the tasks finish, the fetch phase yields one result
\* per request, each result carries the URL its content was fetched for, and
\* the entry returned for a URL is extracted from content fetched for it.
C5_Content(i) ==
    IF Succeeded(i) THEN net[i].doc
    ELSE <<Node("#text", <<"Error:", " ">> \o StrOf(net[i].exc, urls[i]))>>

C5_Pairing ==
    spc = "returned" =>
        /\ Len(html_data) >= Len(urls)
        /\ \A j \in 1..Len(html_data) :
              \E i \in Tasks : urls[i] = html_data[j].url /\ html_data[j].html = C5_Content(i)
        /\ \A u \in DOMAIN result :
              \E i \in Tasks : urls[i] = u /\ result[u] = ExtractText(C5_Content(i))

C5_Witness ==
    /\ spc = "returned"
    /\ done_order = <<2, 1>>
    /\ urls[1] /= urls[2]
    /\ Succeeded(1) /\ Succeeded(2) /\ net[1].doc /= net[2].doc

(***************************************************************************)
(* Properties of Link Discovery and of the shared mapping (under Spec)     *)
(***************************************************************************)
\* the render of task i succeeded: its local `links` is set
Rendered(i) == links[i] /= NoValue
\* task i ended in its exception handler without a link list
RenderFailed(i) == lpc[i] = "done" /\ ~Rendered(i)

\* C6: a rendering error of one target URL stays inside its _fetch_links task:
\* the task adds no entry for its URL, fetch_all_links still returns normally,
\* and on return every URL whose render succeeded holds the links found for it.
C6_RenderErrorIsolated ==
    /\ gpc \in {"idle", "running", "returned"}
    /\ \A u \in DOMAIN collected_links :
          \E i \in DTasks : target_urls[i] = u /\ Rendered(i)
    /\ (gpc = "returned" /\ xpc = "idle") =>
          \A i \in DTasks : Rendered(i) =>
             /\ target_urls[i] \in DOMAIN collected_links
             /\ \E j \in DTasks : /\ target_urls[j] = target_urls[i]
                                  /\ Rendered(j)
                                  /\ collected_links[target_urls[i]] = links[j]

C6_Witness ==
    /\ gpc = "returned" /\ xpc = "idle"
    /\ Len(target_urls) = 2 /\ target_urls[1] /= target_urls[2]
    /\ RenderFailed(1) /\ browser[1] = "quit"
    /\ Rendered(2) /\ links[2] /= <<>>
    /\ DOMAIN collected_links = {target_urls[2]}

\* C7: fetch_all_links has returned only if every discovery task has finished.
C7_ReturnsAfterAllTasks ==
    gpc = "returned" => \A i \in DTasks : lpc[i] = "done"

C7_Witness ==
    /\ gpc = "returned"
    /\ Len(target_urls) = 2
    /\ RenderFailed(1) /\ Rendered(2)

\* C8: a rendering session opened by a discovery task is closed before that
\* task finishes, whether it succeeded or raised, so none is open once
\* fetch_all_links has returned.
C8_SessionsReleased ==
    /\ \A i \in DTasks : lpc[i] = "done" => browser[i] /= "open"
    /\ gpc = "returned" => \A i \in DTasks : browser[i] /= "open"

C8_Witness ==
    /\ gpc = "returned"
    /\ Len(target_urls) = 2
    /\ RenderFailed(1) /\ browser[1] = "quit"
    /\ Rendered(2) /\ browser[2] = "quit"

\* C9 (as claimed): every change of collected_links is made by a task that
\* holds the lock (looked at in a pipeline of at least two sites).
C9_EveryWriteGuarded ==
    [][(Len(target_urls) >= 2 /\ collected_links' /= collected_links) => locked]_vars

InCritical == {i \in DTasks : lpc[i] \in {"cs", "unlock"}}

\* C9 (amended): every write of a discovery task is made holding the lock and
\* replaces the one entry of its URL in a single step, and no two tasks hold
\* the lock at once; the writes of the pipeline's filter steps take no lock.
C9_DiscoveryWritesGuarded ==
    /\ [](Cardinality(InCritical) <= 1 /\ (locked <=> InCritical /= {}))
    /\ [][(collected_links' /= collected_links /\ gpc = "running") =>
             \E i \in DTasks :
                /\ locked /\ InCritical = {i}
                /\ collected_links' = [u \in (DOMAIN collected_links) \cup {target_urls[i]} |->
                                          IF u = target_urls[i] THEN links[i]
                                          ELSE collected_links[u]]]_vars

C9_Witness ==
    /\ Len(target_urls) = 2
    /\ lpc[1] = "unlock" /\ lpc[2] = "lock"
    /\ target_urls[1] \in DOMAIN collected_links

\* C10: from construction on, through discovery, filtering and extraction,
\* every key of collected_links is one of target_urls.
C10_KeysAreTargets ==
    DOMAIN collected_links \subseteq {target_urls[i] : i \in DTasks}

C10_Witness ==
    /\ xpc = "returned"
    /\ Len(target_urls) = 2 /\ target_urls[1] /= target_urls[2]
    /\ DOMAIN collected_links = {target_urls[1], target_urls[2]}
    /\ collected_links[target_urls[1]] /= links[1]

TimedOut(i) == Failed(i) /\ net[i].exc = "TimeoutError"

\* C12: the step in which the timeout of one task expires ends the request of
\* that task only: it turns that URL into a failure and leaves the position,
\* the outcome and the value of every other task, and the batch, as they were.
C12_TimeoutIsPerTask ==
    [][\A i \in Tasks :
         (i \in DOMAIN net' /\ net[i].kind = "none"
            /\ net'[i].kind = "exc" /\ net'[i].exc = "TimeoutError") =>
              /\ fpc'[i] = "done"
              /\ spc' = spc
              /\ \A j \in Tasks \ {i} :
                    fpc'[j] = fpc[j] /\ net'[j] = net[j] /\ fret'[j] = fret[j]]_vars

C12_Witness ==
    /\ spc = "returned"
    /\ Len(urls) = 2
    /\ done_order = <<2, 1>>
    /\ TimedOut(2)
    /\ Succeeded(1) /\ fret[1].html = net[1].doc

Ended == spc \in {"returned", "raised"}

\* Under the fair event loop every call ends: each request in flight ends by
\* a response, a failure or its timeout.
ScrapeTerminates == <>Ended

\* C13: a call of scrape_and_get_html that has come to its end has returned
\* the result mapping, with an entry for every requested URL.
C13_EndsByReturningMapping ==
    Ended => (spc = "returned" /\ DOMAIN result = {urls[i] : i \in Tasks})

(***************************************************************************)
(* The URL filters and the pipeline tasks (under Spec)                     *)
(***************************************************************************)
\* extract_yahoo_finance_news has computed its filtered list
YahooFiltered == Len(target_urls) >= 2 /\ filtered_urls[1] /= NoValue

\* C14: the list yahoo_url_filter returns holds Yahoo Finance URLs only (every
\* URL of another domain is removed).
C14_YahooFilterKeepsOnlyYahoo ==
    YahooFiltered =>
        \A j \in 1..Len(filtered_urls[1]) : StartsWith(filtered_urls[1][j], YahooDomain)

(***************************************************************************)
(* Text extraction (under SpecScrape)                                      *)
(***************************************************************************)
\* the plain text each document must give: its paragraphs in document order,
\* trimmed, joined by one space, script/style/template content left out
C15_Expected(d) ==
    CASE d = DocA -> <<"Market", " ", "up", " ", "B">>
      [] d = DocB -> <<>>
      [] d = DocC -> <<"Hello", " ", "world", " ", "C">>

\* C15: the text returned for a fetched document is the text of its paragraph
\* elements in document order, each trimmed, joined by exactly one space,
\* without script/style/template content; without paragraphs it is empty.
C15_ParagraphText ==
    \A i \in Tasks :
        (spc = "returned" /\ Succeeded(i) /\ IsLast(i)) =>
            result[urls[i]].text = C15_Expected(net[i].doc)

C15_Witness ==
    /\ spc = "returned"
    /\ Len(urls) = 2 /\ urls[1] /= urls[2]
    /\ Succeeded(1) /\ net[1].doc = DocC
    /\ Succeeded(2) /\ net[2].doc = DocB
    /\ result[urls[1]].text = <<"Hello", " ", "world", " ", "C">>
    /\ result[urls[2]].text = <<>>

(***************************************************************************)
(* Fan-out and join of a batch (under SpecScrape)                          *)
(***************************************************************************)
Completed(i) == fpc[i] \in {"done", "raised"}

\* One task per requested URL, and nothing is extracted or returned before
\* every task of the batch has completed.
FanOutThenJoin ==
    /\ spc /= "idle" => Len(fpc) = Len(urls)
    /\ (spc = "returned" \/ html_data /= <<>> \/ DOMAIN result /= {}) => AllDone

\* C16: one fetch task per requested URL; extraction starts and the batch ends
\* only after every task has completed; a task that has started is never
\* cancelled.
C16_FanOutJoinNoCancel ==
    /\ [](FanOutThenJoin /\ (Ended => \A i \in Tasks : Completed(i)))
    /\ [][\A i \in Tasks :
            (fpc[i] = "inflight" /\ i \in DOMAIN fpc') => fpc'[i] /= "cancelled"]_vars

(***************************************************************************)
(* Requests issued by a batch (under SpecScrape)                           *)
(***************************************************************************)
Started(i) == fpc[i] /= "pending"
RequestsFor(u) == {i \in Tasks : urls[i] = u /\ sent[i] >= 1}

\* C17 (as claimed): within one call no URL is requested more than once.
C17_OneFetchPerUrl ==
    /\ \A i \in Tasks : sent[i] <= 1
    /\ \A i \in Tasks : Cardinality(RequestsFor(urls[i])) <= 1

\* C17 (amended): within one call one fetch is issued per entry of the URL
\* list (a URL listed several times is requested once per occurrence), and a
\* failed or timed-out fetch is never issued again.
C17_OneFetchPerEntry ==
    \A i \in Tasks :
        /\ sent[i] <= 1
        /\ Started(i) <=> sent[i] = 1

C17_Witness ==
    /\ spc = "returned"
    /\ Len(urls) = 2 /\ urls[1] = urls[2]
    /\ TimedOut(1) /\ Failed(2) /\ net[2].exc = "ClientConnectorError"
    /\ sent = <<1, 1>>

(***************************************************************************)
(* The pipeline steps after discovery (under Spec)                         *)
(***************************************************************************)
\* no discovery task of site u got a link list: collected_links has no entry u
DiscoveryFailed(u) ==
    /\ gpc = "returned"
    /\ \A i \in DTasks : target_urls[i] = u => ~Rendered(i)

\* C18: the pipeline step of a site whose discovery failed treats the site as
\* one with no links: it never raises, and it ends with an empty mapping.
C18_FailedSiteYieldsEmpty ==
    \A k \in FlowTasks :
        (Len(target_urls) >= 2 /\ DiscoveryFailed(target_urls[k])) =>
            /\ wpc[k] /= "raised"
            /\ wpc[k] = "done" => DOMAIN link_to_data[k] = {}

\* step k has executed scraper.collected_links[website] = filtered_urls
Updated(k) == filtered_urls[k] /= NoValue /\ wpc[k] \notin {"submitted", "filtered"}

Elems(us) == {us[i] : i \in 1..Len(us)}

\* C19: with two distinct sites, each pipeline step reads and replaces only the
\* entry of its own site: whatever the interleaving, the step's filtered list
\* is its filter applied to the links discovered for its site, the entry of its
\* site holds the discovered links until the step itself replaces them with that
\* filtered list, and the step fetches exactly the URLs of that filtered list.
C19_StepsKeepToOwnKey ==
    (Len(target_urls) = 2 /\ target_urls[1] /= target_urls[2] /\ gpc = "returned") =>
        \A k \in FlowTasks : Rendered(k) =>
            /\ filtered_urls[k] \in {NoValue, Filter(k, links[k])}
            /\ collected_links[target_urls[k]] =
                  (IF Updated(k) THEN Filter(k, links[k]) ELSE links[k])
            /\ wpc[k] = "done" => DOMAIN link_to_data[k] = Elems(Filter(k, links[k]))

C19_Witness ==
    /\ xpc = "returned"
    /\ target_urls[1] /= target_urls[2]
    /\ \A k \in FlowTasks :
          /\ wpc[k] = "done"
          /\ filtered_urls[k] /= <<>>
          /\ collected_links[target_urls[k]] = filtered_urls[k]
          /\ DOMAIN link_to_data[k] = Elems(filtered_urls[k])
    /\ filtered_urls[1] /= filtered_urls[2]
    /\ filtered_urls[1] /= links[1]

(***************************************************************************)
(* Duplicated URLs in one batch (under SpecScrape)                         *)
(***************************************************************************)
\* the last position of u in the input list
LastOccurrence(u) == CHOOSE i \in Tasks : urls[i] = u /\ \A j \in Tasks : urls[j] = u => j <= i

\* C20: when a URL occurs several times in the input list, its entry in the
\* returned mapping is the extraction of what the fetch of its last occurrence
\* produced, whatever the order in which the fetch tasks completed.
C20_LastOccurrenceWins ==
    spc = "returned" =>
        \A u \in DOMAIN result :
            result[u] = ExtractText(C5_Content(LastOccurrence(u)))

C20_Witness ==
    /\ spc = "returned"
    /\ Len(urls) = 2 /\ urls[1] = urls[2]
    /\ done_order = <<2, 1>>
    /\ Succeeded(1) /\ Succeeded(2)
    /\ ExtractText(net[1].doc) /= ExtractText(net[2].doc)
    /\ result[urls[1]] = ExtractText(net[2].doc)

====
